---- MODULE Spec2Model ----
(***************************************************************************)
(* K-CBS: the high-level conflict-based search KD_CBS (interpolate,         *)
(* validatePlan, solve) and the low-level planner constraintRRT, as found   *)
(* in src/src/KD_CBS.cpp.                                                   *)
(*                                                                         *)
(* The bounded instance is a corridor: every state has y = 0 and theta = 0, *)
(* so a state is its x coordinate, a control is the displacement per        *)
(* propagation step, and an agent's footprint is the x-interval             *)
(* [cx - W/2, cx + W/2]; it is kept in doubled coordinates (2cx - W,        *)
(* 2cx + W) so that it stays an integer. Coordinates are whole numbers,     *)
(* which std::to_string prints and read_wkt reads back exactly.             *)
(* Vectors are sequences: the C++ index i is the TLA+ index i + 1. Agent    *)
(* and shape indices in records are kept 0-based, as in the code.           *)
(***************************************************************************)
EXTENDS Integers, Sequences, FiniteSets, TLC

\* ------------------------------------------------------------- bounds
\* states are x in 0..MaxX
MaxX == 4
\* the directed control sampler draws durations of 1..MaxSteps steps
MaxSteps == 2
\* motions one run of the low-level planner adds to its tree
MaxMotions == 3
\* calls of KD_CBS::solve on one planner object
MaxCalls == 2

\* ------------------------------------------------------------- world
\* start state and goal state of each agent's problem definition (mmpp_), by slot
AgentStart == <<0, 2>>
AgentGoal == <<1, 4>>
\* carWidth of each of these agents (a->getShape()[0]), by slot
AgentShape == <<1, 1>>
\* the controls the sampler draws: displacement per propagation step
Controls == {-1, 1}
\* propagation step sizes an agent's SpaceInformation may advertise
StepSizes == {1, 2}

Abs(v) == IF v < 0 THEN -v ELSE v

\* ------------------------------------------------------------- paths
\* PathControl: states, controls, controlDurations
MkPath(s, c, d) == [states |-> s, controls |-> c, durations |-> d]
StateCount(p) == Len(p.states)

\* SpaceInformation::propagate(state, control, steps): the state after steps
Propagate(s, u, steps) == s + u * steps

\* the step count rounded up past the duration
InterpStepsUp(d, res) == (d + res) \div res

\* (int)floor(0.5 + duration / res)
InterpSteps(d, res) == (2 * d + res) \div (2 * res)

\* that pass, leaving out a segment that rounds to no step at all
InterpSegmentSkipZero(p, i, res) ==
  LET steps == InterpSteps(p.durations[i], res)
  IN IF steps = 0
     THEN MkPath(<<>>, <<>>, <<>>)
     ELSE IF steps = 1
     THEN MkPath(<<p.states[i]>>, <<p.controls[i]>>, <<p.durations[i]>>)
     ELSE MkPath(<<p.states[i]>> \o
                   [k \in 1..(steps - 1) |-> Propagate(p.states[i], p.controls[i], k)],
                 [k \in 1..steps |-> p.controls[i]],
                 [k \in 1..steps |-> res])

\* one pass of the loop of interpolate over segment i (1-based)
InterpSegment(p, i, res) ==
  LET steps == InterpSteps(p.durations[i], res)
  IN IF steps <= 1
     THEN MkPath(<<p.states[i]>>, <<p.controls[i]>>, <<p.durations[i]>>)
     ELSE MkPath(<<p.states[i]>> \o
                   [k \in 1..(steps - 1) |-> Propagate(p.states[i], p.controls[i], k)],
                 [k \in 1..steps |-> p.controls[i]],
                 [k \in 1..steps |-> res])

RECURSIVE InterpFrom(_, _, _)
InterpFrom(p, i, res) ==
  IF i > Len(p.controls)
  THEN MkPath(<<p.states[Len(p.controls) + 1]>>, <<>>, <<>>)
  ELSE LET seg == InterpSegment(p, i, res)
           rest == InterpFrom(p, i + 1, res)
       IN MkPath(seg.states \o rest.states, seg.controls \o rest.controls,
                 seg.durations \o rest.durations)

\* the guard of interpolate: fewer states than controls + 1
NotInterpolable(p) == Len(p.states) <= Len(p.controls)

\* interpolate with a guard that hands back an emptied path
interpolateEmptying(p, res) ==
  IF Len(p.states) <= Len(p.controls) THEN MkPath(<<>>, <<>>, <<>>)
  ELSE InterpFrom(p, 1, res)

\* KD_CBS::interpolate
interpolate(p, res) ==
  IF Len(p.states) <= Len(p.controls) THEN p ELSE InterpFrom(p, 1, res)

\* ------------------------------------------------------------- footprints
\* the polygon of agent slot a (0-based) of world w at state x; w is the
\* carWidth of each agent of w_->getAgents()
Footprint(w, a, x) == [lo |-> 2 * x - w[a + 1], hi |-> 2 * x + w[a + 1]]

\* boost::geometry::disjoint: touching polygons are not disjoint
Disjoint(p, q) == p.hi < q.lo \/ q.hi < p.lo

\* ------------------------------------------------------------- validatePlan
\* validAgentsIdx with the test of line 113 off by one
ValidAgentsIdxShort(pl, k) ==
  SelectSeq([i \in 1..Len(pl) |-> i - 1], LAMBDA a : k + 1 < StateCount(pl[a + 1]))

\* validAgentsIdx at step k: the slots (0-based) that still have a state
ValidAgentsIdx(pl, k) ==
  SelectSeq([i \in 1..Len(pl) |-> i - 1], LAMBDA a : k < StateCount(pl[a + 1]))

\* shapes at step k, one per entry of validAgentsIdx
ShapesAt(w, pl, k) ==
  LET v == ValidAgentsIdx(pl, k)
  IN [j \in 1..Len(v) |-> Footprint(w, v[j], pl[v[j] + 1].states[k + 1])]

\* the pairs (ai, aj) of shape indices the double loop finds in collision
CollidingPairs(shapes) ==
  {pr \in (0..(Len(shapes) - 1)) \X (0..(Len(shapes) - 1)) :
     pr[1] # pr[2] /\ ~Disjoint(shapes[pr[1] + 1], shapes[pr[2] + 1])}

\* the first of them in the loops' order: ai outer, aj inner
FirstPair(prs) ==
  CHOOSE pr \in prs : \A q \in prs : pr[1] < q[1] \/ (pr[1] = q[1] /\ pr[2] <= q[2])

\* Conflict{ai, aj, shapes[ai], shapes[aj], k * minStepSize}; two records of
\* different times are two elements of the unordered_set c
MkConflict(ai, aj, si, sj, t) == [ai |-> ai, aj |-> aj, shapeI |-> si, shapeJ |-> sj, time |-> t]

\* the while (inConflict) loop, entered with k already incremented
RECURSIVE ConflictTail(_, _, _, _, _, _, _)
ConflictTail(w, pl, vidx, ai, aj, k, res) ==
  IF ~(k < StateCount(pl[ai + 1]) /\ k < StateCount(pl[aj + 1]))
  THEN <<>>
  ELSE LET agent1 == Footprint(w, vidx[ai + 1], pl[ai + 1].states[k + 1])
           agent2 == Footprint(w, vidx[aj + 1], pl[aj + 1].states[k + 1])
       IN IF ~Disjoint(agent1, agent2)
          THEN <<MkConflict(ai, aj, agent1, agent2, k * res)>>
               \o ConflictTail(w, pl, vidx, ai, aj, k + 1, res)
          ELSE <<>>

\* the for (k ...) loop from step k on
RECURSIVE ScanFrom(_, _, _, _, _)
ScanFrom(w, pl, k, maxStates, res) ==
  IF k >= maxStates
  THEN <<>>
  ELSE LET shapes == ShapesAt(w, pl, k)
           prs == CollidingPairs(shapes)
       IN IF prs = {}
          THEN ScanFrom(w, pl, k + 1, maxStates, res)
          ELSE LET pr == FirstPair(prs)
               IN <<MkConflict(pr[1], pr[2], shapes[pr[1] + 1], shapes[pr[2] + 1], k * res)>>
                  \o ConflictTail(w, pl, ValidAgentsIdx(pl, k), pr[1], pr[2], k + 1, res)

MaxStates(pl) ==
  IF pl = <<>> THEN 0
  ELSE CHOOSE m \in {StateCount(pl[i]) : i \in 1..Len(pl)} :
         \A i \in 1..Len(pl) : StateCount(pl[i]) <= m

\* KD_CBS::validatePlan: the conflicts inserted into c, in insertion order
validatePlan(w, pl, res) ==
  LET ipl == [i \in 1..Len(pl) |-> interpolate(pl[i], res)]
  IN ScanFrom(w, ipl, 0, MaxStates(ipl), res)

\* ------------------------------------------------------------- constraintRRT
\* siC_->getMinControlDuration()
MinControlDuration == 1

\* Motion: state, control, steps, parent (an index into the tree, 0 for nullptr)
MkMotion(s, u, steps, parent) == [state |-> s, control |-> u, steps |-> steps, parent |-> parent]

\* the tree after the while (pis_.nextStart()) loop: one start motion
StartTree(a) == <<MkMotion(AgentStart[a + 1], 0, 0, 0)>>

\* the state validity checker of the corridor
ValidState(x) == x \in 0..MaxX

\* goal->isSatisfied(state, &dist): dist, and whether the goal is met
GoalDist(a, x) == Abs(x - AgentGoal[a + 1])
GoalSatisfied(a, x) == GoalDist(a, x) = 0

\* nn_->nearest(rmotion): the tree nodes closest to the sampled state
Nearest(tree, r) ==
  {n \in 1..Len(tree) :
     \A m \in 1..Len(tree) : Abs(tree[n].state - r) <= Abs(tree[m].state - r)}

\* sampleTo: the steps propagated while the states stay valid, at most d
ValidSteps(s, u, d) ==
  CHOOSE k \in 0..d :
    /\ \A j \in 1..k : ValidState(Propagate(s, u, j))
    /\ (k < d => ~ValidState(Propagate(s, u, k + 1)))

\* the motions one iteration of the planner's loop may create and add
\* (addIntermediateStates_ off, constraints_ empty)
Candidates(tree) ==
  {MkMotion(Propagate(tree[n].state, u, ValidSteps(tree[n].state, u, d)), u,
            ValidSteps(tree[n].state, u, d), n) :
     <<n, u, d>> \in {t \in (1..Len(tree)) \X Controls \X (1..MaxSteps) :
                        /\ \E r \in 0..MaxX : t[1] \in Nearest(tree, r)
                        /\ ValidSteps(tree[t[1]].state, t[2], t[3]) >= MinControlDuration}}

\* solution: the motion just added, when it meets the goal (0 for nullptr)
SolutionOf(a, tree) ==
  IF Len(tree) > 1 /\ GoalSatisfied(a, tree[Len(tree)].state) THEN Len(tree) ELSE 0

\* approxsol: the first added motion of least dist (0 for nullptr)
ApproxSolOf(a, tree) ==
  LET added == {n \in 1..Len(tree) : tree[n].parent # 0}
  IN IF added = {} THEN 0
     ELSE CHOOSE n \in added :
            \A m \in added : \/ GoalDist(a, tree[n].state) < GoalDist(a, tree[m].state)
                             \/ (GoalDist(a, tree[n].state) = GoalDist(a, tree[m].state) /\ n <= m)

\* mpath, reversed: the motions from the root to motion n
RECURSIVE ChainTo(_, _)
ChainTo(tree, n) == IF n = 0 THEN <<>> ELSE Append(ChainTo(tree, tree[n].parent), n)

\* that path, each segment lasting the steps of the motion it leaves
MotionPathParentSteps(tree, n, res) ==
  LET ch == ChainTo(tree, n)
  IN MkPath([i \in 1..Len(ch) |-> tree[ch[i]].state],
            [i \in 1..(Len(ch) - 1) |-> tree[ch[i + 1]].control],
            [i \in 1..(Len(ch) - 1) |-> tree[ch[i]].steps * res])

\* the PathControl built from mpath
MotionPath(tree, n, res) ==
  LET ch == ChainTo(tree, n)
  IN MkPath([i \in 1..Len(ch) |-> tree[ch[i]].state],
            [i \in 1..(Len(ch) - 1) |-> tree[ch[i + 1]].control],
            [i \in 1..(Len(ch) - 1) |-> tree[ch[i + 1]].steps * res])

\* base::PlannerStatus(hasSolution, isApproximate)
PlannerStatus(hasSolution, isApproximate) ==
  IF hasSolution
  THEN (IF isApproximate THEN "APPROXIMATE_SOLUTION" ELSE "EXACT_SOLUTION")
  ELSE "TIMEOUT"

\* PlannerStatus::operator bool
StatusBool(st) == st \in {"APPROXIMATE_SOLUTION", "EXACT_SOLUTION"}

\* what constraintRRT::solve returns and adds to pdef_ when its loop ends
\* with this tree
RRTResult(a, tree, res) ==
  LET sol == SolutionOf(a, tree)
      approximate == (sol = 0)
      solution == IF sol = 0 THEN ApproxSolOf(a, tree) ELSE sol
  IN IF solution # 0
     THEN [status |-> PlannerStatus(TRUE, approximate),
           path |-> <<MotionPath(tree, solution, res)>>]
     ELSE [status |-> PlannerStatus(FALSE, approximate), path |-> <<>>]

\* the trees the loop can have built when it ends, having added at most n
\* motions: ptc may end it after any iteration, a goal motion ends it at once
RECURSIVE TreesFrom(_, _, _)
TreesFrom(a, trees, n) ==
  IF n = 0 THEN trees
  ELSE trees \cup
       TreesFrom(a, UNION {{Append(t, m) : m \in Candidates(t)} :
                            t \in {t \in trees : SolutionOf(a, t) = 0}}, n - 1)

\* ss.solve(planningTime_): every result the planner can return for agent a
LowLevelResults(a, res) ==
  {RRTResult(a, t, res) : t \in TreesFrom(a, {StartTree(a)}, MaxMotions)}

\* the same, tabulated by agent slot and step size
LowLevelTable ==
  [a \in 0..(Len(AgentStart) - 1) |-> [res \in StepSizes |-> LowLevelResults(a, res)]]

\* ------------------------------------------------------------- KD_CBS::solve
VARIABLES
  pc,         \* where the planner object is: "idle", "root", "create", "loop",
              \* "finish" inside a call of solve, "done" after its return,
              \* "exited" after exit(1)
  stepSize,   \* getPropagationStepSize() of each agent's SpaceInformation
  ptc,        \* the caller's termination predicate, as it reads now
  calls,      \* calls of solve made on this object
  root_sol,   \* the local Plan root_sol
  queue_,     \* the open set, head first
  solution,   \* the local conflictNode *solution: <<>> is nullptr
  status,     \* the PlannerStatus the last call returned
  delivered,  \* per agent, the paths this call added to its problem definition
  held,       \* the low-level results behind root_sol, in the order pushed
  popped,     \* nodes this call took from the open set
  lowCalls,   \* low-level solves this call started
  failed,     \* whether a low-level solve of this call returned no solution
  c,          \* the conflicts validatePlan returned for the popped node
  detections, \* calls of validatePlan this call of solve made
  w_,         \* the world: the carWidth of each of its agents, by slot
  vpPlan,     \* validatePlan called on its own: the argument pl
  vpRes,      \* and the propagation step size of its agents
  vpOut,      \* <<>> before the call, then <<the conflicts returned>>
  pdef_,      \* constraintRRT on its own: the slot of the agent whose start
              \* and goal its problem definition holds
  a_,         \* its agent descriptor: <<>> is nullptr, else <<the slot>>
  constraints_,            \* its constraint list
  addIntermediateStates_,  \* its add-intermediate-states flag
  llRes,      \* the propagation step size of its SpaceInformation
  nn_,        \* its tree: the motions in the order added
  llpc,       \* "new", "grow" inside the loop of solve, "built" after the
              \* loop, "returned"
  llOut,      \* <<>> before the return, then <<the status and path returned>>
  ipIn,       \* interpolate called on its own: the path handed to it
  ipRes,      \* and the propagation step size of its SpaceInformation
  ipOut,      \* the path after each call made so far
  ipErrors    \* OMPL_ERROR messages interpolate has logged

solveVars == <<pc, stepSize, ptc, calls, root_sol, queue_, solution, status, delivered,
               held, popped, lowCalls, failed, c, detections>>
vpVars == <<vpPlan, vpRes, vpOut>>
llVars == <<pdef_, a_, constraints_, addIntermediateStates_, llRes, nn_, llpc, llOut>>
ipVars == <<ipIn, ipRes, ipOut, ipErrors>>
vars == <<solveVars, w_, vpVars, llVars, ipVars>>

\* mmpp_.size(): one SimpleSetup per agent of the world
NumAgents == Len(w_)

\* the comparison loop stopping one agent short
SameStepSizesShort(sizes) == \A i \in 1..(Len(sizes) - 1) : sizes[i] = sizes[1]

\* lines 275-286: whether every agent's step size equals the first one's
SameStepSizes(sizes) == \A i \in 1..Len(sizes) : sizes[i] = sizes[1]

\* conflictNode::updatePlanAndCost: the plan and the sum of its durations
RECURSIVE SumSeq(_)
SumSeq(q) == IF q = <<>> THEN 0 ELSE Head(q) + SumSeq(Tail(q))
PlanCost(pl) == SumSeq([i \in 1..Len(pl) |-> SumSeq(pl[i].durations)])
MkNode(pl) == [plan |-> pl, cost |-> PlanCost(pl)]

\* queue_.insert: by cost, after the nodes of equal cost
QueueInsert(q, node) ==
  LET before == SelectSeq(q, LAMBDA n : n.cost <= node.cost)
      after == SelectSeq(q, LAMBDA n : n.cost > node.cost)
  IN before \o <<node>> \o after

\* popHead: the least-cost node and the rest of the open set
popHead(q) == [node |-> Head(q), rest |-> Tail(q)]

\* lines 302-306: the root node enters the open set when every agent has a path
RootInserted(q, rs) == IF Len(rs) = NumAgents THEN QueueInsert(q, MkNode(rs)) ELSE q

\* line 308: the test that ends the call with INVALID_START
NoRootNode(q) == Len(q) = 0

\* the main loop's condition without the termination predicate
LoopConditionNoPtc(p, q) == q # <<>>

\* line 318: the condition of the main loop
LoopCondition(p, q) == p = FALSE /\ q # <<>>

\* lines 349-370: the path built from mpath and added to the problem definition
DeliveredPath(mpath) ==
  MkPath([j \in 1..(StateCount(mpath) - 1) |-> mpath.states[j]],
         [j \in 1..(StateCount(mpath) - 2) |-> mpath.controls[j + 1]],
         [j \in 1..(StateCount(mpath) - 2) |-> mpath.durations[j + 1]])

\* lines 338-376: the status returned after the loop
FinalStatus(sol) ==
  IF sol = <<>> THEN PlannerStatus(FALSE, FALSE) ELSE PlannerStatus(TRUE, FALSE)

\* lines 349-373: what is added to the agents' problem definitions
FinalDelivery(sol) ==
  IF sol = <<>> THEN [i \in 1..NumAgents |-> <<>>]
  ELSE [i \in 1..NumAgents |-> <<DeliveredPath(sol[1].plan[i])>>]

\* a planner object as constructed for a world of n agents, step sizes drawn
SolveNew(n) ==
  /\ pc = "idle"
  /\ stepSize \in [1..n -> StepSizes]
  /\ ptc = FALSE
  /\ calls = 0
  /\ root_sol = <<>>
  /\ queue_ = <<>>
  /\ solution = <<>>
  /\ status = "UNKNOWN"
  /\ delivered = [i \in 1..n |-> <<>>]
  /\ held = <<>>
  /\ popped = 0
  /\ lowCalls = 0
  /\ failed = FALSE
  /\ c = <<>>
  /\ detections = 0

\* no call of validatePlan, constraintRRT::solve or interpolate on its own
VPIdle == vpPlan = <<>> /\ vpRes = 1 /\ vpOut = <<>>
LLIdle ==
  /\ pdef_ = 0
  /\ a_ = <<>>
  /\ constraints_ = <<>>
  /\ addIntermediateStates_ = FALSE
  /\ llRes = 1
  /\ nn_ = <<>>
  /\ llpc = "idle"
  /\ llOut = <<>>
IPIdle == ipIn = <<>> /\ ipRes = 1 /\ ipOut = <<>> /\ ipErrors = 0

InitOf(w) == w_ = w /\ SolveNew(Len(w)) /\ VPIdle /\ LLIdle /\ IPIdle

Init == InitOf(AgentShape)

\* solve is entered (lines 272-289): the step sizes are compared
Enter ==
  /\ calls' = calls + 1
  /\ ptc' \in BOOLEAN
  /\ root_sol' = <<>>
  /\ held' = <<>>
  /\ solution' = <<>>
  /\ delivered' = [i \in 1..NumAgents |-> <<>>]
  /\ popped' = 0
  /\ lowCalls' = 0
  /\ failed' = FALSE
  /\ c' = <<>>
  /\ detections' = 0
  /\ IF SameStepSizes(stepSize)
     THEN pc' = "root" /\ status' = "UNKNOWN"
     ELSE pc' = "done" /\ status' = "INVALID_START"
  /\ UNCHANGED <<stepSize, queue_>>
  /\ UNCHANGED <<w_, vpVars, llVars, ipVars>>

\* one pass of the loop of lines 293-299: the next agent's low-level solve
PlanAgent ==
  /\ pc = "root"
  /\ lowCalls < NumAgents
  /\ \E r \in LowLevelTable[lowCalls][stepSize[lowCalls + 1]] :
       /\ IF StatusBool(r.status)
          THEN root_sol' = root_sol \o r.path /\ held' = Append(held, r.status)
          ELSE root_sol' = root_sol /\ held' = held
       /\ failed' = (failed \/ ~StatusBool(r.status))
  /\ lowCalls' = lowCalls + 1
  /\ UNCHANGED <<pc, stepSize, ptc, calls, queue_, solution, status, delivered, popped, c, detections>>
  /\ UNCHANGED <<w_, vpVars, llVars, ipVars>>

\* lines 301-312: the root node is created, and the call ends if the open set
\* is empty
CreateRoot ==
  /\ pc = "root"
  /\ lowCalls = NumAgents
  /\ queue_' = RootInserted(queue_, root_sol)
  /\ IF NoRootNode(queue_')
     THEN pc' = "done" /\ status' = "INVALID_START"
     ELSE pc' = "loop" /\ status' = status
  /\ UNCHANGED <<stepSize, ptc, calls, root_sol, solution, delivered, held, popped,
                 lowCalls, failed, c, detections>>
  /\ UNCHANGED <<w_, vpVars, llVars, ipVars>>

\* one pass of the main loop (lines 318-336): pop, validate, and either keep
\* the node as the solution or exit(1)
Expand ==
  /\ pc = "loop"
  /\ LoopCondition(ptc, queue_)
  /\ LET h == popHead(queue_)
         found == validatePlan(w_, h.node.plan, stepSize[1])
     IN /\ queue_' = h.rest
        /\ c' = found
        /\ popped' = popped + 1
        /\ detections' = detections + 1
        /\ IF found = <<>>
           THEN solution' = <<h.node>> /\ pc' = "finish"
           ELSE solution' = solution /\ pc' = "exited"
  /\ UNCHANGED <<stepSize, ptc, calls, root_sol, status, delivered, held, lowCalls, failed>>
  /\ UNCHANGED <<w_, vpVars, llVars, ipVars>>

\* the main loop ends with its condition false
LoopEnd ==
  /\ pc = "loop"
  /\ ~LoopCondition(ptc, queue_)
  /\ pc' = "finish"
  /\ UNCHANGED <<stepSize, ptc, calls, root_sol, queue_, solution, status, delivered,
                 held, popped, lowCalls, failed, c, detections>>
  /\ UNCHANGED <<w_, vpVars, llVars, ipVars>>

\* lines 338-376: the bookkeeping after the loop, and the return
Finish ==
  /\ pc = "finish"
  /\ status' = FinalStatus(solution)
  /\ delivered' = FinalDelivery(solution)
  /\ pc' = "done"
  /\ UNCHANGED <<stepSize, ptc, calls, root_sol, queue_, solution, held, popped,
                 lowCalls, failed, c, detections>>
  /\ UNCHANGED <<w_, vpVars, llVars, ipVars>>

\* the caller's termination predicate becomes true during a call
Trip ==
  /\ pc \in {"root", "loop", "finish"}
  /\ ptc = FALSE
  /\ ptc' = TRUE
  /\ UNCHANGED <<pc, stepSize, calls, root_sol, queue_, solution, status, delivered,
                 held, popped, lowCalls, failed, c, detections>>
  /\ UNCHANGED <<w_, vpVars, llVars, ipVars>>

\* the first call of solve on the planner object
Call == pc = "idle" /\ Enter

\* a further call of solve on the same planner object, after a return
Recall == pc = "done" /\ calls < MaxCalls /\ Enter

Next == Call \/ PlanAgent \/ CreateRoot \/ Expand \/ LoopEnd \/ Finish \/ Trip

\* one call of solve on a new planner object
Spec == Init /\ [][Next]_vars

NextReuse == Next \/ Recall

\* up to MaxCalls calls of solve on one planner object
SpecReuse == Init /\ [][NextReuse]_vars

\* ------------------------------------------------------------- properties of solve
\* the call has returned a status that reads as solved
Solved == pc = "done" /\ StatusBool(status)

\* the plan the call delivered: per agent, the path added to its problem definition
ReturnedPlan == [i \in 1..NumAgents |-> delivered[i][1]]

\* C1: whenever solve reports solved, validatePlan run on the delivered
\* per-agent trajectories returns no conflict.
C1_ReturnedPlanConflictFree ==
  Solved => validatePlan(w_, ReturnedPlan, stepSize[1]) = <<>>

\* C2: on success every agent's delivered trajectory begins at the agent's
\* start state and its last state lies in the agent's goal region.
C2_DeliveredStartToGoal ==
  Solved =>
    \A i \in 1..NumAgents :
      /\ ReturnedPlan[i].states[1] = AgentStart[i]
      /\ GoalSatisfied(i - 1, ReturnedPlan[i].states[StateCount(ReturnedPlan[i])])

\* C3: on success the trajectory delivered for agent i is the solution node's
\* trajectory of slot i: the same states, controls and durations, with one
\* state more than controls.
C3_DeliveredIsNodeTrajectory ==
  Solved =>
    \A i \in 1..NumAgents :
      /\ ReturnedPlan[i] = solution[1].plan[i]
      /\ StateCount(ReturnedPlan[i]) = Len(ReturnedPlan[i].controls) + 1

\* C4: when the node popped from the open set has a conflict, the search goes
\* on: the call stays in its main loop, and every node the step adds to the
\* open set is a child of the popped node that differs from it in the
\* trajectory of one of the two conflicting agents only.
C4_ConflictSpawnsChildren ==
  [][(/\ pc = "loop"
      /\ LoopCondition(ptc, queue_)
      /\ validatePlan(w_, Head(queue_).plan, stepSize[1]) # <<>>)
     => (/\ pc' = "loop"
         /\ \A n \in 1..Len(queue_') :
              \/ \E m \in 2..Len(queue_) : queue_'[n] = queue_[m]
              \/ \E a \in {validatePlan(w_, Head(queue_).plan, stepSize[1])[1].ai,
                           validatePlan(w_, Head(queue_).plan, stepSize[1])[1].aj} :
                   \A b \in 1..NumAgents :
                     b # a + 1 => queue_'[n].plan[b] = Head(queue_).plan[b])]_vars

\* C5: no call of solve ends by terminating the host process: every call
\* that ends, ends by returning a status.
C5_NoProcessExit == pc # "exited"

\* C6: if two agents advertise different propagation step sizes, a call of
\* solve ends at once with a failure status: no low-level solve is started,
\* nothing enters the open set, no node is popped and nothing is delivered.
C6_StepMismatchAborts ==
  (/\ calls > 0
   /\ \E i, j \in 1..NumAgents : stepSize[i] # stepSize[j])
  => /\ pc = "done"
     /\ ~StatusBool(status)
     /\ status = "INVALID_START"
     /\ lowCalls = 0
     /\ popped = 0
     /\ queue_ = <<>>
     /\ \A i \in 1..NumAgents : delivered[i] = <<>>

C6_Witness ==
  /\ pc = "done"
  /\ calls > 0
  /\ stepSize[1] # stepSize[2]
  /\ status = "INVALID_START"

\* C7: in every call, once the low-level solve of some agent has failed, the
\* call pops no node and delivers nothing, and it returns INVALID_START.
C7_FailedAgentAborts ==
  failed =>
    /\ popped = 0
    /\ solution = <<>>
    /\ pc \in {"root", "done"}
    /\ (pc = "done" => status = "INVALID_START")
    /\ \A i \in 1..NumAgents : delivered[i] = <<>>

\* C8: every trajectory pushed into root_sol was returned by the low-level
\* planner as an exact solution.
C8_NoApproximateInPlan ==
  \A i \in 1..Len(held) : held[i] = "EXACT_SOLUTION"

\* a call that reached its main loop and ended it without a popped node found
\* conflict-free has no solution, returns TIMEOUT (solved false, approximate
\* false) and delivers no trajectory
NoSolutionAtEnd ==
  (/\ pc \in {"finish", "done"}
   /\ status # "INVALID_START"
   /\ (popped = 0 \/ c # <<>>))
  => /\ solution = <<>>
     /\ (pc = "done" =>
           /\ status = "TIMEOUT"
           /\ ~StatusBool(status)
           /\ \A i \in 1..NumAgents : delivered[i] = <<>>)

C24_NoWorkAfterCancel ==
  [][ptc => (popped' = popped /\ lowCalls' = lowCalls)]_vars

\* the node validatePlan found free of conflicts still has the plan the
\* low-level planner produced
NodePlanKept == solution # <<>> => solution[1].plan = root_sol

\* C25: validatePlan leaves the plan of the node it is run on as it was, so
\* the node kept as the solution has the trajectories the low-level planner
\* produced, and the trajectory delivered for each agent is that trajectory,
\* with the same states, controls and durations.
C25_PlanUntouched ==
  /\ NodePlanKept
  /\ Solved => \A i \in 1..NumAgents : ReturnedPlan[i] = root_sol[i]

\* ------------------------------------------------------------- a single agent
\* the world of one agent: the agent of slot 0 alone
SingleWorld == <<1>>

InitSingle == InitOf(SingleWorld)

\* one call of solve on a new planner object that has a single agent
SpecSingle == InitSingle /\ [][Next]_vars

\* C11: with a single agent, a call of solve that has returned made exactly
\* one low-level planner call and no call of validatePlan, and if that
\* low-level call returned a solution the call reports solved and delivers
\* that solution.
C11_SingleAgentDirect ==
  (Len(w_) = 1 /\ pc = "done") =>
    /\ lowCalls = 1
    /\ detections = 0
    /\ (~failed => /\ Solved
                   /\ delivered[1] = <<root_sol[1]>>)

\* ------------------------------------------------------------- constraintRRT on its own
\* constraint windows lie within steps 0..MaxTime
MaxTime == 3

\* Constraint: getPolygons() and getTimeRange()
MkConstraint(polys, t0, t1) == [polys |-> polys, t0 |-> t0, t1 |-> t1]

\* lines 488-496: the steps applied along the parent chain to reach motion m
RECURSIVE TotalSteps(_, _)
TotalSteps(tree, m) ==
  IF m.parent = 0 THEN 0 ELSE m.steps + TotalSteps(tree, tree[m.parent])

\* the window test with an open upper end
InWindowOpen(cn, currTime) == cn.t0 <= currTime /\ currTime < cn.t1

\* line 500: whether the constraint's time range contains currTime
InWindow(cn, currTime) == cn.t0 <= currTime /\ currTime <= cn.t1

\* constraintRRT::satisfiesConstraints(n), lines 486-552, for a motion m whose
\* parent is in tree
satisfiesConstraints(w, a, cons, tree, m, res) ==
  LET currTime == TotalSteps(tree, m) * res
      currShape == Footprint(w, a, m.state)
  IN \A i \in 1..Len(cons) :
       InWindow(cons[i], currTime) =>
         \A j \in 1..Len(cons[i].polys) : Disjoint(currShape, cons[i].polys[j])

\* lines 618-646: the motions the add-intermediate-states branch adds for
\* candidate m: one per propagated substate, each of one step, chained from
\* m's parent, up to and including the first that meets the goal
RECURSIVE IntermediateChain(_, _, _, _)
IntermediateChain(g, tree, m, p) ==
  IF p > m.steps THEN <<>>
  ELSE LET motion == MkMotion(Propagate(tree[m.parent].state, m.control, p), m.control, 1,
                              IF p = 1 THEN m.parent ELSE Len(tree) + p - 1)
       IN IF GoalSatisfied(g, motion.state)
          THEN <<motion>>
          ELSE <<motion>> \o IntermediateChain(g, tree, m, p + 1)

\* the constraint lists a planner is handed: none, or one constraint whose
\* polygon is the footprint of a unit-width agent at some state
ConstraintLists ==
  {<<>>} \cup
  {<<MkConstraint(<<Footprint(<<1>>, 0, x)>>, t[1] * llRes, t[2] * llRes)>> :
     <<x, t>> \in (0..MaxX) \X {t \in (0..MaxTime) \X (0..MaxTime) : t[1] <= t[2]}}

InitLL ==
  /\ w_ = AgentShape
  /\ SolveNew(Len(AgentShape))
  /\ stepSize = [i \in 1..Len(AgentShape) |-> 1]
  /\ VPIdle
  /\ IPIdle
  /\ pdef_ \in 0..(Len(AgentStart) - 1)
  /\ a_ \in {<<>>, <<pdef_>>}
  /\ llRes \in StepSizes
  /\ constraints_ \in ConstraintLists
  /\ addIntermediateStates_ \in BOOLEAN
  /\ nn_ = <<>>
  /\ llpc = "new"
  /\ llOut = <<>>

\* lines 557-593: solve is entered and the start state seeds the tree
LLBegin ==
  /\ llpc = "new"
  /\ nn_' = StartTree(pdef_)
  /\ llpc' = "grow"
  /\ UNCHANGED <<pdef_, a_, constraints_, addIntermediateStates_, llRes, llOut>>
  /\ UNCHANGED <<solveVars, w_, vpVars, ipVars>>

\* one pass of the loop of lines 595-709 whose sampled control lasts at least
\* the minimum control duration, with the flag set (lines 609-657)
LLExtendIntermediate ==
  /\ llpc = "grow"
  /\ addIntermediateStates_
  /\ Len(nn_) <= MaxMotions
  /\ \E m \in Candidates(nn_) :
       /\ nn_' = nn_ \o IntermediateChain(pdef_, nn_, m, 1)
       /\ llpc' = IF SolutionOf(pdef_, nn_') # 0 THEN "built" ELSE "grow"
  /\ UNCHANGED <<pdef_, a_, constraints_, addIntermediateStates_, llRes, llOut>>
  /\ UNCHANGED <<solveVars, w_, vpVars, ipVars>>

\* the same with the flag off (lines 658-708)
LLExtend ==
  /\ llpc = "grow"
  /\ ~addIntermediateStates_
  /\ Len(nn_) <= MaxMotions
  /\ \E m \in Candidates(nn_) :
       IF constraints_ # <<>> /\ a_ = <<>>
       THEN nn_' = nn_ /\ llpc' = "exited"
       ELSE IF constraints_ # <<>>
               /\ ~satisfiesConstraints(w_, a_[1], constraints_, nn_, m, llRes)
            THEN nn_' = nn_ /\ llpc' = llpc
            ELSE /\ nn_' = Append(nn_, m)
                 /\ llpc' = IF SolutionOf(pdef_, nn_') # 0 THEN "built" ELSE "grow"
  /\ UNCHANGED <<pdef_, a_, constraints_, addIntermediateStates_, llRes, llOut>>
  /\ UNCHANGED <<solveVars, w_, vpVars, ipVars>>

\* line 595: the termination condition ends the loop
LLStop ==
  /\ llpc = "grow"
  /\ llpc' = "built"
  /\ UNCHANGED <<pdef_, a_, constraints_, addIntermediateStates_, llRes, nn_, llOut>>
  /\ UNCHANGED <<solveVars, w_, vpVars, ipVars>>

\* lines 711-751: the solution path is built and the status returned
LLReturn ==
  /\ llpc = "built"
  /\ llOut' = <<RRTResult(pdef_, nn_, llRes)>>
  /\ llpc' = "returned"
  /\ UNCHANGED <<pdef_, a_, constraints_, addIntermediateStates_, llRes, nn_>>
  /\ UNCHANGED <<solveVars, w_, vpVars, ipVars>>

NextLL == LLBegin \/ LLExtendIntermediate \/ LLExtend \/ LLStop \/ LLReturn

\* one call of constraintRRT::solve on a new planner
SpecLL == InitLL /\ [][NextLL]_vars

\* the time of tree node n: the step size times the steps of the motions on
\* its parent chain, its own included
NodeTime(n) == llRes * SumSeq([i \in 1..Len(ChainTo(nn_, n)) |-> nn_[ChainTo(nn_, n)[i]].steps])

\* the planned agent's footprint at state x meets no polygon of a constraint
\* whose window contains time t
ClearAt(x, t) ==
  \A i \in 1..Len(constraints_) :
    (constraints_[i].t0 <= t /\ t <= constraints_[i].t1) =>
      \A j \in 1..Len(constraints_[i].polys) :
        (\/ Footprint(w_, pdef_, x).hi < constraints_[i].polys[j].lo
         \/ constraints_[i].polys[j].hi < Footprint(w_, pdef_, x).lo)

\* the path the planner returned, resampled to the propagation step
ReturnedSamples == interpolate(llOut[1].path[1], llRes).states

\* C12: the trajectory the low-level planner returns under its constraint list
\* keeps the agent's footprint clear of every constraint at every sample time
\* of the trajectory inside the constraint's window, the sample times inside
\* an edge of several steps included.
C12_ReturnedPathClear ==
  (llpc = "returned" /\ llOut[1].path # <<>>) =>
    \A k \in 0..(Len(ReturnedSamples) - 1) : ClearAt(ReturnedSamples[k + 1], k * llRes)

\* C13: with the add-intermediate-states flag off, every tree node other than
\* the start node has a control duration of at least the minimum control
\* duration, and at its time its footprint is clear of every constraint whose
\* window contains that time.
C13_AddedNodesSatisfy ==
  ~addIntermediateStates_ =>
    \A n \in 2..Len(nn_) :
      /\ nn_[n].steps >= MinControlDuration
      /\ ClearAt(nn_[n].state, NodeTime(n))

\* the flag is off, a node was added at a time inside a constraint's window,
\* and another candidate of that moment was turned away by the constraint
C13_Witness ==
  /\ ~addIntermediateStates_
  /\ constraints_ # <<>>
  /\ Len(nn_) >= 2
  /\ constraints_[1].t0 <= NodeTime(2) /\ NodeTime(2) <= constraints_[1].t1
  /\ \E m \in Candidates(StartTree(pdef_)) :
       ~satisfiesConstraints(w_, pdef_, constraints_, StartTree(pdef_), m, llRes)

\* C14: with the add-intermediate-states flag set, every tree node other than
\* the start node is, at its time, clear of every constraint whose window
\* contains that time.
C14_IntermediateNodesSatisfy ==
  addIntermediateStates_ =>
    \A n \in 2..Len(nn_) : ClearAt(nn_[n].state, NodeTime(n))

\* the tree nodes from the start node to node n, along the parent links
RECURSIVE RootChain(_)
RootChain(n) == IF nn_[n].parent = 0 THEN <<n>> ELSE Append(RootChain(nn_[n].parent), n)

\* the path to node n: its states, controls and durations are those of the
\* nodes of the parent chain of n, each duration the node's steps times the
\* step size
IsPathTo(p, n) ==
  LET ch == RootChain(n)
  IN /\ StateCount(p) = Len(ch)
     /\ Len(p.controls) = Len(ch) - 1
     /\ Len(p.durations) = Len(ch) - 1
     /\ \A i \in 1..Len(ch) : p.states[i] = nn_[ch[i]].state
     /\ \A i \in 1..(Len(ch) - 1) :
          /\ p.controls[i] = nn_[ch[i + 1]].control
          /\ p.durations[i] = nn_[ch[i + 1]].steps * llRes

\* C22: when the planner returns without a tree node that meets the goal, it
\* returns an approximate solution whose path is the path to a tree node of
\* least distance to the goal among all tree nodes, the start node included.
C22_ApproximateIsNearest ==
  (llpc = "returned" /\ \A n \in 1..Len(nn_) : ~GoalSatisfied(pdef_, nn_[n].state)) =>
    /\ llOut[1].status = "APPROXIMATE_SOLUTION"
    /\ llOut[1].path # <<>>
    /\ \E n \in 1..Len(nn_) :
         /\ \A m \in 1..Len(nn_) :
              GoalDist(pdef_, nn_[n].state) <= GoalDist(pdef_, nn_[m].state)
         /\ IsPathTo(llOut[1].path[1], n)

\* C23: when the planner returns an exact solution, some tree node meets the
\* goal and the returned path is the path to it: it starts at the start
\* state, lists the states along the parent links in order, has one state
\* more than controls, and each duration is the node's steps times the step
\* size.
C23_ExactIsGoalChain ==
  (llpc = "returned" /\ llOut[1].status = "EXACT_SOLUTION") =>
    /\ llOut[1].path # <<>>
    /\ llOut[1].path[1].states[1] = AgentStart[pdef_ + 1]
    /\ StateCount(llOut[1].path[1]) = Len(llOut[1].path[1].controls) + 1
    /\ \E n \in 2..Len(nn_) :
         /\ GoalSatisfied(pdef_, nn_[n].state)
         /\ IsPathTo(llOut[1].path[1], n)

\* an exact solution was returned whose path has segments of different
\* durations
C23_Witness ==
  /\ llpc = "returned"
  /\ llOut[1].status = "EXACT_SOLUTION"
  /\ Len(llOut[1].path[1].durations) >= 2
  /\ \E i, j \in 1..Len(llOut[1].path[1].durations) :
       llOut[1].path[1].durations[i] # llOut[1].path[1].durations[j]

\* ------------------------------------------------------------- validatePlan on its own
\* the states of a trajectory handed to validatePlan are x in 0..MaxPlanX
MaxPlanX == 5

\* the world of the plans handed to validatePlan: three agents, by carWidth
PlanWorld == <<1, 1, 2>>

\* the trajectories of a plan handed to validatePlan: a single state, or one
\* segment that applies a control for 1..MaxSteps steps within 0..MaxPlanX
Trajectories(res) ==
  {MkPath(<<x>>, <<>>, <<>>) : x \in 0..MaxPlanX} \cup
  {MkPath(<<t[1], Propagate(t[1], t[2], t[3])>>, <<t[2]>>, <<t[3] * res>>) :
     t \in {t \in (0..MaxPlanX) \X Controls \X (1..MaxSteps) :
              Propagate(t[1], t[2], t[3]) \in 0..MaxPlanX}}

InitVP ==
  /\ w_ = PlanWorld
  /\ SolveNew(Len(PlanWorld))
  /\ stepSize = [i \in 1..Len(PlanWorld) |-> 1]
  /\ vpRes = 1
  /\ vpPlan \in [1..Len(PlanWorld) -> Trajectories(vpRes)]
  /\ vpOut = <<>>
  /\ LLIdle
  /\ IPIdle

\* validatePlan(pl) is called and returns c
Validate ==
  /\ vpOut = <<>>
  /\ vpOut' = <<validatePlan(w_, vpPlan, vpRes)>>
  /\ UNCHANGED <<solveVars, w_, vpPlan, vpRes, llVars, ipVars>>

NextVP == Validate

SpecVP == InitVP /\ [][NextVP]_vars

\* the plan as validatePlan scans it
ScannedPlan == [i \in 1..Len(vpPlan) |-> interpolate(vpPlan[i], vpRes)]

\* agents a and b (slots, 0-based) both have a state at step k and their
\* footprints there are not disjoint
CollideAt(a, b, k) ==
  /\ k < StateCount(ScannedPlan[a + 1])
  /\ k < StateCount(ScannedPlan[b + 1])
  /\ ~Disjoint(Footprint(w_, a, ScannedPlan[a + 1].states[k + 1]),
               Footprint(w_, b, ScannedPlan[b + 1].states[k + 1]))

\* the pairs of slots i < j that collide at step k
CollidingSlots(k) ==
  {pr \in (0..(Len(vpPlan) - 1)) \X (0..(Len(vpPlan) - 1)) :
     pr[1] < pr[2] /\ CollideAt(pr[1], pr[2], k)}

\* the steps at which some pair collides
CollisionSteps == {k \in 0..(MaxStates(ScannedPlan) - 1) : CollidingSlots(k) # {}}

\* C10: the first conflict validatePlan reports starts at the smallest step at
\* which any pair of agents collides, names the plan slots of the
\* lexicographically smallest pair colliding there, and records those two
\* agents' footprints at that step.
C10_FirstConflictReported ==
  (vpOut # <<>> /\ vpOut[1] # <<>>) =>
    /\ CollisionSteps # {}
    /\ LET r == vpOut[1][1]
           k == CHOOSE m \in CollisionSteps : \A n \in CollisionSteps : m <= n
           pr == CHOOSE q \in CollidingSlots(k) :
                   \A o \in CollidingSlots(k) :
                     q[1] < o[1] \/ (q[1] = o[1] /\ q[2] <= o[2])
       IN /\ r.time = k * vpRes
          /\ r.ai = pr[1]
          /\ r.aj = pr[2]
          /\ r.shapeI = Footprint(w_, pr[1], ScannedPlan[pr[1] + 1].states[k + 1])
          /\ r.shapeJ = Footprint(w_, pr[2], ScannedPlan[pr[2] + 1].states[k + 1])

\* the records validatePlan returned
Reported == vpOut[1]

\* the first step at which some pair collides, and the lexicographically
\* smallest pair of slots colliding there
FirstStep == CHOOSE m \in CollisionSteps : \A n \in CollisionSteps : m <= n
FirstSlots ==
  CHOOSE q \in CollidingSlots(FirstStep) :
    \A o \in CollidingSlots(FirstStep) : q[1] < o[1] \/ (q[1] = o[1] /\ q[2] <= o[2])

\* the last step of the contiguous run of collisions of slots a and b from step k
RECURSIVE WindowEnd(_, _, _)
WindowEnd(a, b, k) == IF CollideAt(a, b, k + 1) THEN WindowEnd(a, b, k + 1) ELSE k

\* C15: every conflict record validatePlan returns names two agents that both
\* have a state, in their interpolated trajectories, at the step of the record.
C15_NoEndedAgentNamed ==
  vpOut # <<>> =>
    \A n \in 1..Len(Reported) :
      /\ Reported[n].time \div vpRes < StateCount(ScannedPlan[Reported[n].ai + 1])
      /\ Reported[n].time \div vpRes < StateCount(ScannedPlan[Reported[n].aj + 1])

\* C16: the window validatePlan reports for the first colliding agents i and j
\* runs from the first collision step k to the last step k' such that i and j
\* both have a state and collide at every step of k..k', and the footprints
\* recorded along it are those two agents' own.
C16_WindowMaximal ==
  (vpOut # <<>> /\ Reported # <<>>) =>
    /\ CollisionSteps # {}
    /\ Reported[1].time = FirstStep * vpRes
    /\ Reported[Len(Reported)].time
         = WindowEnd(FirstSlots[1], FirstSlots[2], FirstStep) * vpRes
    /\ \A n \in 1..Len(Reported) :
         /\ Reported[n].shapeI =
              Footprint(w_, FirstSlots[1],
                        ScannedPlan[FirstSlots[1] + 1].states[Reported[n].time \div vpRes + 1])
         /\ Reported[n].shapeJ =
              Footprint(w_, FirstSlots[2],
                        ScannedPlan[FirstSlots[2] + 1].states[Reported[n].time \div vpRes + 1])

\* C17: validatePlan returns at most one conflict record per call.
C17_AtMostOneRecord ==
  vpOut # <<>> => Cardinality({Reported[n] : n \in 1..Len(Reported)}) <= 1

\* C18: validatePlan returns the empty set exactly when no two distinct agents
\* collide at any step at which both have a state in their interpolated
\* trajectories.
C18_EmptyIffNoCollision ==
  vpOut # <<>> => (Reported = <<>> <=> CollisionSteps = {})

\* validatePlan returned the empty set for a plan in which an agent's last
\* state would meet a later state of a longer trajectory
C18_Witness ==
  /\ vpOut # <<>>
  /\ Reported = <<>>
  /\ \E a, b \in 0..(Len(vpPlan) - 1) :
       /\ StateCount(ScannedPlan[a + 1]) < StateCount(ScannedPlan[b + 1])
       /\ ~Disjoint(Footprint(w_, a, ScannedPlan[a + 1].states[StateCount(ScannedPlan[a + 1])]),
                    Footprint(w_, b, ScannedPlan[b + 1].states[StateCount(ScannedPlan[a + 1]) + 1]))

\* ------------------------------------------------------------- interpolate on its own
\* segments of a path handed to interpolate, and the largest control duration
MaxSegments == 2
MaxDuration == 3

\* the paths of at most n more segments that extend those of ps: each segment
\* applies a control for a duration of 0..MaxDuration and ends where the
\* propagation of the rounded step count ends
RECURSIVE PathsFrom(_, _, _)
PathsFrom(ps, n, res) ==
  IF n = 0 THEN ps
  ELSE ps \cup
       PathsFrom({MkPath(Append(t[1].states,
                                Propagate(t[1].states[StateCount(t[1])], t[2],
                                          InterpSteps(t[3], res))),
                         Append(t[1].controls, t[2]), Append(t[1].durations, t[3])) :
                    t \in ps \X Controls \X (0..MaxDuration)},
                 n - 1, res)

\* those paths, and each of them with its last state missing
Paths(res) ==
  LET wf == PathsFrom({MkPath(<<0>>, <<>>, <<>>)}, MaxSegments, res)
  IN wf \cup {MkPath(SubSeq(p.states, 1, StateCount(p) - 1), p.controls, p.durations) :
               p \in wf}

InitIP ==
  /\ w_ = AgentShape
  /\ SolveNew(Len(AgentShape))
  /\ stepSize = [i \in 1..Len(AgentShape) |-> 1]
  /\ VPIdle
  /\ LLIdle
  /\ ipRes \in StepSizes
  /\ ipIn \in Paths(ipRes)
  /\ ipOut = <<>>
  /\ ipErrors = 0

\* interpolate(p) is called on the path, and then on its own result
Interpolate ==
  /\ Len(ipOut) < 2
  /\ LET p == IF ipOut = <<>> THEN ipIn ELSE ipOut[Len(ipOut)]
     IN /\ ipOut' = Append(ipOut, interpolate(p, ipRes))
        /\ ipErrors' = ipErrors + (IF NotInterpolable(p) THEN 1 ELSE 0)
  /\ UNCHANGED <<solveVars, w_, vpVars, llVars, ipIn, ipRes>>

NextIP == Interpolate

SpecIP == InitIP /\ [][NextIP]_vars

\* C19: after interpolate has run on a path with one state more than
\* controls, the result has one state more than controls and every control
\* duration equals the propagation step size.
C19_UniformDurations ==
  (ipOut # <<>> /\ StateCount(ipIn) = Len(ipIn.controls) + 1) =>
    /\ StateCount(ipOut[1]) = Len(ipOut[1].controls) + 1
    /\ Len(ipOut[1].durations) = Len(ipOut[1].controls)
    /\ \A i \in 1..Len(ipOut[1].durations) : ipOut[1].durations[i] = ipRes

\* C20: interpolating the interpolated path changes nothing: the second
\* result has the states, controls and durations of the first.
C20_Idempotent ==
  Len(ipOut) = 2 =>
    /\ ipOut[2].states = ipOut[1].states
    /\ ipOut[2].controls = ipOut[1].controls
    /\ ipOut[2].durations = ipOut[1].durations

\* both calls were made on a path that the first call lengthened
C20_Witness ==
  /\ Len(ipOut) = 2
  /\ StateCount(ipOut[1]) > StateCount(ipIn)
  /\ ipOut[2] = ipOut[1]

\* a is b with elements left out: the elements of a occur in b in a's order
RECURSIVE Embeds(_, _)
Embeds(a, b) ==
  IF a = <<>> THEN TRUE
  ELSE IF b = <<>> THEN FALSE
  ELSE IF Head(a) = Head(b) THEN Embeds(Tail(a), Tail(b))
  ELSE Embeds(a, Tail(b))

\* C21: interpolate keeps the first and the last state of a path with one
\* state more than controls, keeps every state of it in the original order,
\* and yields no fewer states and no fewer controls than it was given.
C21_KeepsStates ==
  (ipOut # <<>> /\ StateCount(ipIn) = Len(ipIn.controls) + 1) =>
    /\ ipOut[1].states[1] = ipIn.states[1]
    /\ ipOut[1].states[StateCount(ipOut[1])] = ipIn.states[StateCount(ipIn)]
    /\ Embeds(ipIn.states, ipOut[1].states)
    /\ StateCount(ipOut[1]) >= StateCount(ipIn)
    /\ Len(ipOut[1].controls) >= Len(ipIn.controls)

\* a path of two segments, one rounding to no step and one to several, was
\* interpolated and came out longer
C21_Witness ==
  /\ ipOut # <<>>
  /\ Len(ipIn.controls) = 2
  /\ StateCount(ipIn) = 3
  /\ \E i \in 1..2 : InterpSteps(ipIn.durations[i], ipRes) = 0
  /\ StateCount(ipOut[1]) > StateCount(ipIn)

\* C26: interpolate called on a path whose state count is not greater than
\* its control count logs an error and hands the path back with the states,
\* controls and durations it had.
C26_MalformedUntouched ==
  (ipOut # <<>> /\ StateCount(ipIn) <= Len(ipIn.controls)) =>
    /\ ipOut[1].states = ipIn.states
    /\ ipOut[1].controls = ipIn.controls
    /\ ipOut[1].durations = ipIn.durations
    /\ ipErrors = Len(ipOut)

\* interpolate was called on a path of two controls and two states
C26_Witness ==
  /\ Len(ipOut) = 1
  /\ Len(ipIn.controls) = 2
  /\ StateCount(ipIn) = 2
  /\ ipErrors = 1

====
